---- MODULE Spec2Model ----
(***************************************************************************)
(* Phone-order intake server (src/server.js) and its polling dashboard     *)
(* (src/dashboard/app.js): the orders table, POST /api/orders with its     *)
(* print dispatch, GET /api/orders, PATCH /api/orders/:id, and the         *)
(* dashboard's fetch / status buttons.                                     *)
(***************************************************************************)
EXTENDS Integers, Sequences, FiniteSets, TLC

VARIABLES env, orders, now, resp, view

vars == <<env, orders, now, resp, view>>

----------------------------------------------------------------------------
(* Bounds of the model.                                                    *)

\* rows the intake handler may insert under Spec, SpecNoPrint and SpecDash
MaxOrders == 2

\* rows the intake handler may insert under SpecStore
MaxStoreOrders == 3

\* stands for the LIMIT 100 of the list query (src/server.js:118), scaled
\* down so that SpecStore holds more matching rows than the limit
ListLimit == 2

----------------------------------------------------------------------------
(* JavaScript values of a JSON request body.  Every value has the same     *)
(* shape: t is the type tag, s the text of a string, n a number (counted   *)
(* in hundredths, so 15.5 is 1550), a the elements of an array of items.   *)

Undef == [t |-> "undefined", s |-> "", n |-> 0, a |-> <<>>]

Null == [t |-> "null", s |-> "", n |-> 0, a |-> <<>>]

Str(x) == [t |-> "string", s |-> x, n |-> 0, a |-> <<>>]

Num(x) == [t |-> "number", s |-> "", n |-> x, a |-> <<>>]

Arr(x) == [t |-> "array", s |-> "", n |-> 0, a |-> x]

\* JavaScript truthiness, as used by `x || d` and `if (x)`
Truthy(v) ==
    CASE v.t = "undefined" -> FALSE
      [] v.t = "null" -> FALSE
      [] v.t = "string" -> v.s # ""
      [] v.t = "number" -> v.n # 0
      [] OTHER -> TRUE

\* x || d
OrElse(v, d) == IF Truthy(v) THEN v ELSE d

Item(name, quantity, modifications) ==
    [name |-> name, quantity |-> quantity, modifications |-> modifications]

Burger == Item("Burger", 2, <<"no onions">>)

Fries == Item("Fries", 1, <<>>)

\* the texts the model serialises to or parses from, each with the value
\* JSON.parse gives for it; a text outside the table is not JSON
JsonTable ==
    { <<"[{\"name\":\"Burger\",\"quantity\":2,\"modifications\":[\"no onions\"]}]",
        Arr(<<Burger>>)>>,
      <<"[{\"name\":\"Fries\",\"quantity\":1,\"modifications\":[]}]",
        Arr(<<Fries>>)>>,
      <<"[{\"name\":\"two burgers\",\"quantity\":1,\"modifications\":[]}]",
        Arr(<<Item("two burgers", 1, <<>>)>>)>>,
      <<"5", Num(500)>>,
      <<"null", Null>> }

\* JSON.parse(text) succeeds
JsonParses(text) == \E e \in JsonTable : e[1] = text

\* JSON.parse(text), when it succeeds
JsonParse(text) == (CHOOSE e \in JsonTable : e[1] = text)[2]

\* JSON.stringify(v) returns a string (it returns undefined for undefined)
JsonStringifies(v) == \E e \in JsonTable : e[2] = v

\* JSON.stringify(v)
JsonStringify(v) == (CHOOSE e \in JsonTable : e[2] = v)[1]

----------------------------------------------------------------------------
(* Environment: process.env, read at each print dispatch, never written.   *)

\* the texts of PRINTER_IDS and PRINT_WEBHOOKS: <<text, parses, keys>>
MapTable ==
    { <<"{}", TRUE, {}>>,
      <<"{\"b1\":\"70001\"}", TRUE, {"b1"}>>,
      <<"{\"default\":\"https://kitchen/hook\"}", TRUE, {"default"}>>,
      <<"{b1:", FALSE, {}>> }

\* JSON.parse(text || '{}'): whether it returns, and the keys of the result
MapLookup(text) ==
    LET e == CHOOSE x \in MapTable : x[1] = (IF text = "" THEN "{}" ELSE text)
    IN  [ok |-> e[2], keys |-> e[3]]

AllEnvs ==
    [ PRINT_METHOD : {"", "printnode", "cloudprnt", "webhook", "email"},
      PRINTNODE_API_KEY : {"", "key"},
      PRINTER_IDS : {"", "{\"b1\":\"70001\"}", "{b1:"},
      PRINT_WEBHOOKS : {"", "{\"default\":\"https://kitchen/hook\"}", "{b1:"} ]

\* every setting of the variables its PRINT_METHOD reads
Envs ==
    { e \in AllEnvs :
        /\ e.PRINT_METHOD # "printnode"
              => e.PRINTNODE_API_KEY = "key" /\ e.PRINTER_IDS = "{\"b1\":\"70001\"}"
        /\ e.PRINT_METHOD # "webhook"
              => e.PRINT_WEBHOOKS = "{\"default\":\"https://kitchen/hook\"}" }

NoPrintEnvs == { e \in AllEnvs : e.PRINT_METHOD = "" }

----------------------------------------------------------------------------
(* Request bodies of POST /api/orders.                                     *)

Body(businessId, customerName, customerPhone, items, specialInstructions, total) ==
    [ businessId |-> businessId, customerName |-> customerName,
      customerPhone |-> customerPhone, items |-> items,
      specialInstructions |-> specialInstructions, total |-> total ]

\* structured items, a numeric total, no business id
AliceBody == Body(Undef, Str("Alice"), Undef, Arr(<<Burger>>), Undef, Num(1550))

\* items as a string that is not JSON
RawTextBody ==
    Body(Str("b1"), Undef, Str("555-0100"), Str("two burgers"), Str("extra napkins"), Undef)

\* items as a string holding a JSON array of line items; empty strings, zero
JsonTextBody ==
    Body(Str("b1"), Str(""), Str(""),
         Str("[{\"name\":\"Fries\",\"quantity\":1,\"modifications\":[]}]"), Str(""), Num(0))

\* items as a string holding JSON that is not an array
JsonScalarBody == Body(Undef, Str("Bob"), Undef, Str("5"), Undef, Num(700))

\* total as a string
TextTotalBody == Body(Str("b1"), Str("Carol"), Undef, Arr(<<Burger>>), Undef, Str("15.5"))

\* no items at all
NoItemsBody == Body(Undef, Str("Dan"), Undef, Undef, Undef, Num(100))

Bodies ==
    {AliceBody, RawTextBody, JsonTextBody, JsonScalarBody, TextTotalBody, NoItemsBody}

\* the bodies SpecStore sends: two businesses, well-formed items
StoreBodies == {AliceBody, RawTextBody}

\* outcomes of one outbound fetch: a 2xx response, another status, a rejection
NetOutcomes == {"ok", "status", "throws"}

----------------------------------------------------------------------------
(* The orders table.                                                       *)

\* `#${Date.now().toString().slice(-6)}`: the last six digits of the clock
\* in milliseconds; `now` counts seconds
OrderNumber(t) == (t * 1000) % 1000000

\* a text that looks like a number, stored in the REAL column `total`, is
\* converted to that number; any other text is stored as it is
RealAffinity(v) ==
    IF v.t = "string" /\ v.s = "15.5" THEN Num(1550) ELSE v

\* the row INSERT adds; status and created_at take the column defaults
NewRow(id, b, parsedItems, orderNumber, t) ==
    [ id |-> id,
      business_id |-> OrElse(b.businessId, Str("default")).s,
      order_number |-> orderNumber,
      customer_name |-> OrElse(b.customerName, Str("Guest")).s,
      customer_phone |-> OrElse(b.customerPhone, Str("")).s,
      items |-> JsonStringify(parsedItems),
      special_instructions |-> OrElse(b.specialInstructions, Str("")).s,
      total |-> RealAffinity(OrElse(b.total, Num(0))),
      status |-> "new",
      created_at |-> t ]

\* a faulty insert (INSERT OR REPLACE on the latest id): the new row takes
\* the place of the latest one
InsertReplacing(rows, row) ==
    IF rows = <<>> THEN <<row>> ELSE [rows EXCEPT ![Len(rows)] = row]

\* insert.run(...): appends the row; AUTOINCREMENT gives it the next id
Insert(rows, row) == Append(rows, row)

\* the id insert.run assigns (lastInsertRowid)
NextRowId(rows) == Len(rows) + 1

\* a faulty update: UPDATE orders SET status = ? without its WHERE clause
UpdateStatusEverywhere(rows, id, status) ==
    [ i \in DOMAIN rows |-> [rows[i] EXCEPT !.status = status] ]

\* UPDATE orders SET status = ? WHERE id = ?
UpdateStatus(rows, id, status) ==
    [ i \in DOMAIN rows |->
        IF rows[i].id = id THEN [rows[i] EXCEPT !.status = status] ELSE rows[i] ]

----------------------------------------------------------------------------
(* Print dispatch.  Each operator gives [raised, calls]: whether it throws *)
(* to its caller and the URLs it has sent a request to.                    *)

Quiet == [raised |-> FALSE, calls |-> <<>>]

Thrown == [raised |-> TRUE, calls |-> <<>>]

\* order.items.forEach and order.total.toFixed throw a TypeError on a value
\* that is no array, respectively no number
formatKitchenTicketThrows(order) ==
    order.items.t # "array" \/ order.total.t # "number"

printViaPrintNode(e, businessId, net) ==
    IF e.PRINTNODE_API_KEY = "" THEN Quiet
    ELSE IF ~MapLookup(e.PRINTER_IDS).ok THEN Thrown
    ELSE IF businessId \notin MapLookup(e.PRINTER_IDS).keys THEN Quiet
    ELSE [raised |-> (net = "throws"), calls |-> <<"https://api.printnode.com/printjobs">>]

printViaCloudPRNT(e, businessId, net) == Quiet

printViaWebhook(e, businessId, net) ==
    IF ~MapLookup(e.PRINT_WEBHOOKS).ok THEN Thrown
    ELSE IF businessId \notin MapLookup(e.PRINT_WEBHOOKS).keys THEN Quiet
    ELSE [raised |-> (net = "throws"), calls |-> <<"https://kitchen/hook">>]

\* the channel call inside the try block of printOrder
printChannel(e, businessId, net) ==
    CASE e.PRINT_METHOD = "printnode" -> printViaPrintNode(e, businessId, net)
      [] e.PRINT_METHOD = "cloudprnt" -> printViaCloudPRNT(e, businessId, net)
      [] e.PRINT_METHOD = "webhook" -> printViaWebhook(e, businessId, net)
      [] OTHER -> Quiet

\* a faulty printOrder: the early return for an unset PRINT_METHOD is missing
printOrderAlways(e, businessId, order, net) ==
    IF formatKitchenTicketThrows(order) THEN Thrown
    ELSE [raised |-> FALSE, calls |-> printChannel(e, businessId, net).calls]

printOrder(e, businessId, order, net) ==
    IF e.PRINT_METHOD = "" THEN Quiet
    ELSE IF formatKitchenTicketThrows(order) THEN Thrown
    ELSE [raised |-> FALSE, calls |-> printChannel(e, businessId, net).calls]

----------------------------------------------------------------------------
(* Responses.  The server handles one request at a time.  resp is the      *)
(* response being sent to the API client (NoResp when the server is idle), *)
(* with what the handler did on the way: the request itself, whether a row *)
(* was inserted, whether printOrder was called, and the outbound calls     *)
(* made.                                                                   *)

NoQuery == [businessId |-> Undef, status |-> Undef]

NoResp ==
    [ kind |-> "none", http |-> 0, success |-> FALSE,
      body |-> <<>>, order |-> <<>>, list |-> <<>>,
      id |-> 0, status |-> "", query |-> NoQuery,
      inserted |-> FALSE, dispatched |-> FALSE, calls |-> <<>> ]

Idle == resp = NoResp

\* res.json(...) has been written: the client has the response
Respond ==
    /\ ~Idle
    /\ resp' = NoResp
    /\ UNCHANGED <<env, orders, now, view>>

----------------------------------------------------------------------------
(* POST /api/orders                                                        *)

\* items as a string is parsed; a string that does not parse becomes one
\* line item named by the whole string
ParseItems(items) ==
    IF items.t = "string"
    THEN IF JsonParses(items.s) THEN JsonParse(items.s)
         ELSE Arr(<<Item(items.s, 1, <<>>)>>)
    ELSE items

\* the order object the handler builds after the insert
OrderObject(id, b, parsedItems, orderNumber, t) ==
    [ id |-> id,
      orderNumber |-> orderNumber,
      businessId |-> OrElse(b.businessId, Str("default")),
      customerName |-> OrElse(b.customerName, Str("Guest")),
      customerPhone |-> OrElse(b.customerPhone, Str("")),
      items |-> parsedItems,
      specialInstructions |-> OrElse(b.specialInstructions, Str("")),
      total |-> OrElse(b.total, Num(0)),
      createdAt |-> t ]

\* insert.run throws: the store fails (dbOk is false), or items has no
\* serialisation to bind to the NOT NULL column
InsertThrows(parsedItems, dbOk) == ~dbOk \/ ~JsonStringifies(parsedItems)

\* the whole handler: elapsed is the time gone by since the last request,
\* dbOk whether the store accepts the insert, net the outcome of the
\* outbound call, if one is made
PostOrders(b, dbOk, elapsed, net) ==
    LET t == now + elapsed
        parsedItems == ParseItems(b.items)
        orderNumber == OrderNumber(t)
        id == NextRowId(orders)
        order == OrderObject(id, b, parsedItems, orderNumber, t)
        pr == printOrder(env, OrElse(b.businessId, Str("default")).s, order, net)
        sent == [NoResp EXCEPT !.kind = "post", !.body = <<b>>]
    IN  /\ Idle
        /\ t <= Len(orders)
        /\ now' = t
        /\ IF InsertThrows(parsedItems, dbOk)
           THEN /\ orders' = orders
                /\ resp' = [sent EXCEPT !.http = 500]
           ELSE /\ orders' = Insert(orders, NewRow(id, b, parsedItems, orderNumber, t))
                /\ resp' = IF pr.raised
                           THEN [sent EXCEPT !.http = 500, !.inserted = TRUE,
                                             !.dispatched = TRUE, !.calls = pr.calls]
                           ELSE [sent EXCEPT !.http = 200, !.success = TRUE,
                                             !.order = <<order>>, !.inserted = TRUE,
                                             !.dispatched = TRUE, !.calls = pr.calls]
        /\ UNCHANGED <<env, view>>

----------------------------------------------------------------------------
(* GET /api/orders                                                         *)

\* the query parameters a client may send: none, an empty one, a value
BusinessQueries == {Undef, Str(""), Str("b1")}

StatusQueries == {Undef, Str(""), Str("new"), Str("preparing")}

\* WHERE 1=1 [AND business_id = ?] [AND status = ?]: a condition is added
\* only for a parameter that is truthy
Matches(row, q) ==
    /\ Truthy(q.businessId) => row.business_id = q.businessId.s
    /\ Truthy(q.status) => row.status = q.status.s

\* { ...order, items: JSON.parse(order.items) }
FormatRow(row) == [row EXCEPT !.items = JsonParse(row.items)]

Min(a, b) == IF a < b THEN a ELSE b

\* a faulty query: ORDER BY created_at ASC
SelectOrdersAscending(rows, q, limit) ==
    LET M == {i \in DOMAIN rows : Matches(rows[i], q)}
        n == Cardinality(M)
        sorted == { f \in [1..n -> M] :
                      /\ \A j, k \in 1..n : j # k => f[j] # f[k]
                      /\ \A j \in 1..n : j < n =>
                            rows[f[j]].created_at <= rows[f[j + 1]].created_at }
    IN  { [j \in 1..Min(n, limit) |-> rows[f[j]]] : f \in sorted }

\* ORDER BY created_at DESC LIMIT n: the orders SQL allows; rows of the same
\* created_at come in any order
SelectOrders(rows, q, limit) ==
    LET M == {i \in DOMAIN rows : Matches(rows[i], q)}
        n == Cardinality(M)
        sorted == { f \in [1..n -> M] :
                      /\ \A j, k \in 1..n : j # k => f[j] # f[k]
                      /\ \A j \in 1..n : j < n =>
                            rows[f[j]].created_at >= rows[f[j + 1]].created_at }
    IN  { [j \in 1..Min(n, limit) |-> rows[f[j]]] : f \in sorted }

\* the responses the handler may give to a query
ListResults(rows, q) ==
    { [j \in DOMAIN r |-> FormatRow(r[j])] : r \in SelectOrders(rows, q, ListLimit) }

GetOrders(q) ==
    /\ Idle
    /\ \E result \in ListResults(orders, q) :
          resp' = [NoResp EXCEPT !.kind = "get", !.http = 200, !.success = TRUE,
                                 !.query = q, !.list = result]
    /\ UNCHANGED <<env, orders, now, view>>

----------------------------------------------------------------------------
(* PATCH /api/orders/:id                                                   *)

\* statuses a client may send: the three the dashboard knows, and another
StatusInputs == {"new", "preparing", "completed", "cancelled"}

PatchOrder(id, status) ==
    /\ Idle
    /\ orders' = UpdateStatus(orders, id, status)
    /\ resp' = [NoResp EXCEPT !.kind = "patch", !.http = 200, !.success = TRUE,
                              !.id = id, !.status = status]
    /\ UNCHANGED <<env, now, view>>

----------------------------------------------------------------------------
(* The dashboard (src/dashboard/app.js).  Each open dashboard holds its    *)
(* business selection and currentOrders, the list it fetched last and      *)
(* rendered; of each fetched order it keeps here the id and the status,    *)
(* which decide the buttons renderOrders draws.                            *)

Dashboards == {"d1", "d2"}

BusinessSelections == {"", "b1"}

NoView == [businessSelect |-> "", currentOrders |-> <<>>]

\* the query fetchOrders sends: businessId only when one is selected
DashQuery(select) ==
    [businessId |-> IF select # "" THEN Str(select) ELSE Undef, status |-> Undef]

Rendered(list) == [j \in DOMAIN list |-> [id |-> list[j].id, status |-> list[j].status]]

\* renderOrders draws the button for `status` on the card of order id
HasButton(d, id, status) ==
    \E j \in DOMAIN view[d].currentOrders :
        /\ view[d].currentOrders[j].id = id
        /\ view[d].currentOrders[j].status =
              (IF status = "preparing" THEN "new" ELSE "preparing")

\* fetchOrders, on the timer and at page load
fetchOrders(d) ==
    /\ Idle
    /\ \E result \in ListResults(orders, DashQuery(view[d].businessSelect)) :
          view' = [view EXCEPT ![d].currentOrders = Rendered(result)]
    /\ UNCHANGED <<env, orders, now, resp>>

\* the change listener of businessSelect: fetchOrders with the new selection
SelectBusiness(d, select) ==
    /\ Idle
    /\ select # view[d].businessSelect
    /\ \E result \in ListResults(orders, DashQuery(select)) :
          view' = [view EXCEPT ![d] = [businessSelect |-> select,
                                       currentOrders |-> Rendered(result)]]
    /\ UNCHANGED <<env, orders, now, resp>>

\* a click on "Start Preparing" (status = "preparing") or "Mark Complete"
\* (status = "completed"): the PATCH, then fetchOrders
updateOrderStatus(d, id, status) ==
    /\ Idle
    /\ HasButton(d, id, status)
    /\ orders' = UpdateStatus(orders, id, status)
    /\ \E result \in ListResults(orders', DashQuery(view[d].businessSelect)) :
          view' = [view EXCEPT ![d].currentOrders = Rendered(result)]
    /\ UNCHANGED <<env, now, resp>>

----------------------------------------------------------------------------
(* Specifications.                                                         *)

\* the server with every print configuration and every request
Init ==
    /\ env \in Envs
    /\ orders = <<>>
    /\ now = 0
    /\ resp = NoResp
    /\ view = [d \in Dashboards |-> NoView]

Post ==
    \E b \in Bodies, dbOk \in BOOLEAN, elapsed \in {0, 1}, net \in NetOutcomes :
        Len(orders) < MaxOrders /\ PostOrders(b, dbOk, elapsed, net)

Get ==
    \E qb \in BusinessQueries, qs \in StatusQueries :
        GetOrders([businessId |-> qb, status |-> qs])

Patch ==
    \E id \in 1..(MaxOrders + 1), status \in StatusInputs : PatchOrder(id, status)

Next == Post \/ Get \/ Patch \/ Respond

Spec == Init /\ [][Next]_vars

\* the intake handler alone, with PRINT_METHOD unset and every setting of
\* the other print variables
InitNoPrint ==
    /\ env \in NoPrintEnvs
    /\ orders = <<>>
    /\ now = 0
    /\ resp = NoResp
    /\ view = [d \in Dashboards |-> NoView]

NextNoPrint == Post \/ Respond

SpecNoPrint == InitNoPrint /\ [][NextNoPrint]_vars

\* the store under creates, queries and updates, with more rows than the
\* list query returns
InitStore ==
    /\ env \in {e \in Envs : e.PRINT_METHOD = ""}
    /\ orders = <<>>
    /\ now = 0
    /\ resp = NoResp
    /\ view = [d \in Dashboards |-> NoView]

PostStore ==
    \E b \in StoreBodies, dbOk \in BOOLEAN, elapsed \in {0, 1} :
        Len(orders) < MaxStoreOrders /\ PostOrders(b, dbOk, elapsed, "ok")

PatchStore ==
    \E id \in 1..(MaxStoreOrders + 1), status \in {"preparing", "completed"} :
        PatchOrder(id, status)

NextStore == PostStore \/ Get \/ PatchStore \/ Respond

SpecStore == InitStore /\ [][NextStore]_vars

\* two dashboards on one server: orders arrive, the dashboards fetch and
\* their buttons are clicked
PostDash ==
    \E b \in StoreBodies, elapsed \in {0, 1} :
        Len(orders) < MaxOrders /\ PostOrders(b, TRUE, elapsed, "ok")

Poll == \E d \in Dashboards : fetchOrders(d)

Select == \E d \in Dashboards, select \in BusinessSelections : SelectBusiness(d, select)

Click ==
    \E d \in Dashboards, id \in 1..MaxOrders, status \in {"preparing", "completed"} :
        updateOrderStatus(d, id, status)

NextDash == PostDash \/ Poll \/ Select \/ Click \/ Respond

SpecDash == InitStore /\ [][NextDash]_vars

----------------------------------------------------------------------------
(* Properties.                                                             *)

PostDone == resp.kind = "post"

PostOk == resp.kind = "post" /\ resp.success

\* C1: once the insert of POST /api/orders has succeeded, print dispatch
\* never raises to the handler and the client receives {success: true,
\* order}, whatever the body and the print configuration.
C1_PrintNeverFailsIntake ==
    (PostDone /\ resp.inserted) =>
        (resp.success /\ resp.http = 200 /\ Len(resp.order) = 1)

\* a sequence of line items, each with a positive quantity
WellFormedItems(v) ==
    /\ v.t = "array"
    /\ \A j \in DOMAIN v.a : v.a[j].quantity \in Nat \ {0}

\* C2: the items of the order a successful POST returns, and of the row
\* stored for it, is a well-formed sequence of line items; for items given
\* as a string that is not JSON it is exactly one item, named by the whole
\* string, with quantity 1 and no modifications.
C2_ItemsWellFormed ==
    PostOk =>
        LET given == resp.body[1].items
            o == resp.order[1]
        IN  /\ WellFormedItems(o.items)
            /\ WellFormedItems(JsonParse(orders[o.id].items))
            /\ (given.t = "string" /\ ~JsonParses(given.s))
                  => o.items = Arr(<<Item(given.s, 1, <<>>)>>)

\* C3: the order a successful POST returns is the stored row: status "new"
\* and the businessId, customerName, customerPhone, items,
\* specialInstructions and total of the row, the defaults applied.
C3_ReturnedOrderIsStoredRow ==
    PostOk =>
        LET b == resp.body[1]
            o == resp.order[1]
            r == orders[o.id]
        IN  /\ "status" \in DOMAIN o
            /\ o.status = "new"
            /\ r.status = "new"
            /\ o.businessId = Str(r.business_id)
            /\ o.customerName = Str(r.customer_name)
            /\ o.customerPhone = Str(r.customer_phone)
            /\ o.items = JsonParse(r.items)
            /\ o.specialInstructions = Str(r.special_instructions)
            /\ o.total = r.total
            /\ ~Truthy(b.businessId) => o.businessId = Str("default")
            /\ ~Truthy(b.customerName) => o.customerName = Str("Guest")
            /\ ~Truthy(b.total) => o.total = Num(0)

\* the list of a GET response against the store it was read from, where M
\* holds the positions of the rows the query selects
ListIsExact(M) ==
    LET L == resp.list
    IN  /\ Len(L) <= ListLimit
        /\ Len(L) = Min(Cardinality(M), ListLimit)
        /\ \A j \in DOMAIN L : \E i \in M : L[j] = FormatRow(orders[i])
        /\ \A j, k \in DOMAIN L : j # k => L[j].id # L[k].id
        /\ \A j, k \in DOMAIN L : j < k => L[j].created_at >= L[k].created_at
        /\ \A i \in M : (\A j \in DOMAIN L : L[j].id # orders[i].id)
                           => \A j \in DOMAIN L : L[j].created_at >= orders[i].created_at

\* the query parameter v is present in the query string
Given(v) == v.t # "undefined"

\* C4 as stated: GET returns exactly the orders whose business id and status
\* equal the filter values given in the query, newest first, cut to the
\* limit.
C4_ExactForGivenFilters ==
    resp.kind = "get" =>
        ListIsExact({ i \in DOMAIN orders :
            /\ Given(resp.query.businessId)
                  => orders[i].business_id = resp.query.businessId.s
            /\ Given(resp.query.status)
                  => orders[i].status = resp.query.status.s })

\* C4, amended: GET returns exactly the orders whose business id and status
\* equal the non-empty filter values of the query (an empty value filters
\* nothing, like an omitted one), by created_at descending, cut to the limit
\* keeping the most recent.
C4_ExactForNonEmptyFilters ==
    resp.kind = "get" =>
        ListIsExact({ i \in DOMAIN orders :
            /\ (Given(resp.query.businessId) /\ resp.query.businessId.s # "")
                  => orders[i].business_id = resp.query.businessId.s
            /\ (Given(resp.query.status) /\ resp.query.status.s # "")
                  => orders[i].status = resp.query.status.s })

C4_Witness ==
    /\ resp.kind = "get"
    /\ Truthy(resp.query.businessId)
    /\ Len(resp.list) = ListLimit
    /\ Cardinality({i \in DOMAIN orders : Matches(orders[i], resp.query)}) > ListLimit
    /\ \E i \in DOMAIN orders : orders[i].status # "new"
    /\ resp.list[1].created_at > resp.list[ListLimit].created_at

\* C5: PATCH with an id that matches no stored order answers {success:
\* true} and leaves every row as it was.
C5_PatchUnknownId ==
    [][ (Idle /\ resp'.kind = "patch" /\ \A i \in DOMAIN orders : orders[i].id # resp'.id)
           => (resp'.success /\ resp'.http = 200 /\ orders' = orders) ]_vars

C5_Witness ==
    /\ resp.kind = "patch"
    /\ resp.success
    /\ Len(orders) >= 2
    /\ \A i \in DOMAIN orders : orders[i].id # resp.id
    /\ \E i \in DOMAIN orders : orders[i].status # resp.status

\* C6: with PRINT_METHOD unset, every POST whose insert succeeds returns
\* {success: true, order} and makes no outbound call, whatever the other
\* print variables hold.
C6_NoPrintMethod ==
    (env.PRINT_METHOD = "" /\ PostDone /\ resp.inserted) =>
        (resp.success /\ resp.http = 200 /\ Len(resp.order) = 1 /\ resp.calls = <<>>)

C6_Witness ==
    /\ env.PRINT_METHOD = ""
    /\ env.PRINTNODE_API_KEY = "key"
    /\ env.PRINTER_IDS = "{\"b1\":\"70001\"}"
    /\ PostOk
    /\ resp.body[1] = TextTotalBody
    /\ resp.calls = <<>>

\* C7: print dispatch runs only after the insert has succeeded, and every
\* failure response is one of a failed insert: no row added, no print
\* dispatch, no outbound call.
C7_FailureBeforePrint ==
    PostDone =>
        /\ resp.dispatched => resp.inserted
        /\ ~resp.success => (resp.http = 500 /\ ~resp.inserted /\ ~resp.dispatched
                              /\ resp.calls = <<>>)

\* C8: the status of every stored order is one of new, preparing,
\* completed.
C8_StatusKnown ==
    \A i \in DOMAIN orders : orders[i].status \in {"new", "preparing", "completed"}

Rank(status) ==
    CASE status = "new" -> 0
      [] status = "preparing" -> 1
      [] status = "completed" -> 2
      [] OTHER -> 3

\* C9: under any interleaving of the dashboards' clicks, an order's status
\* never moves back to an earlier one.
C9_ForwardOnly ==
    [][ \A i \in DOMAIN orders :
          \A j \in DOMAIN orders' :
             orders'[j].id = orders[i].id => Rank(orders'[j].status) >= Rank(orders[i].status) ]_vars

Fixed(row) == [row EXCEPT !.status = ""]

\* C10: no step removes an order or changes a field of it other than
\* status; only an update changes a status, and only of the row whose id
\* it names.
C10_OnlyStatusOfNamedRow ==
    [][ \A i \in DOMAIN orders :
          /\ \E j \in DOMAIN orders' : Fixed(orders'[j]) = Fixed(orders[i])
          /\ (resp'.kind # "patch" \/ resp'.id # orders[i].id)
                => \E j \in DOMAIN orders' : orders'[j] = orders[i] ]_vars

C10_Witness ==
    /\ resp.kind = "patch"
    /\ Len(orders) >= 2
    /\ \E i \in DOMAIN orders : orders[i].id = resp.id /\ orders[i].status = resp.status
    /\ \E i \in DOMAIN orders : orders[i].id # resp.id /\ orders[i].status # resp.status

====
